---- MODULE Spec2Model ----
(***************************************************************************)
(* QMC5883L I2C magnetometer driver (lib/qmc5883l.py).                     *)
(*                                                                         *)
(* The driver object is modelled by its fields (scale, toffset,           *)
(* declination, data); the I2C transport and time.sleep are modelled by   *)
(* the list of bus transactions and delays a call issues (log) and by the *)
(* last payload the transport accepted for each register address (regs).  *)
(* Every method is one action; its body is a chain of statement operators *)
(* over a frame, in which a raised exception skips the statements after   *)
(* it, as in Python.                                                       *)
(*                                                                         *)
(* Numbers.  Python floats are modelled by exact values: a true division  *)
(* a / b is the reduced fraction [num, den]; an angle is an integer       *)
(* number of arc-minutes (PI = 180 * 60), exact for atan2 on the grid     *)
(* Axis \X Axis.                                                           *)
(***************************************************************************)
EXTENDS Integers, Sequences, FiniteSets, TLC

VARIABLES
    phase,        \* "new" (in __init__), "ready" (constructed), "failed" (__init__ raised)
    scale,        \* self.scale
    toffset,      \* self.toffset
    declination,  \* self.declination, in arc-minutes
    data,         \* self.data, the reused 9-byte buffer (<<>> before it is allocated)
    regs,         \* device side: last payload accepted at each register address
    log,          \* bus transactions, delays and scale updates of the last call, in order
    result,       \* outcome of the last call: [exc, ret]
    call,         \* the last call: [op, args]
    lastRng       \* history: rng of the last write_config that passed validation

vars == <<phase, scale, toffset, declination, data, regs, log, result, call, lastRng>>

(***************************************************************************)
(* Program constants                                                       *)
(***************************************************************************)
REG_CR1 == 9
REG_CR2 == 10
MODE_STBY == 0
MODE_CONT == 1
ODR_10HZ == 0
ODR_50HZ == 1
ODR_100HZ == 2
ODR_200HZ == 3
RNG_2G == 0
RNG_8G == 1
OSR_512 == 0
OSR_256 == 1
OSR_128 == 2
OSR_64 == 3
InitScale == 3000      \* self.scale = 3000, before the constructor's write_config
BufLen == 9            \* array('B', [0] * 9)
SettleMs == 5          \* time.sleep(0.005)
DataReg == 0           \* readfrom_mem_into(self.address, 0x00, ...)

RANGESCALE_swapped == (RNG_2G :> 3000) @@ (RNG_8G :> 12000)

RANGESCALE == (RNG_2G :> 12000) @@ (RNG_8G :> 3000)

\* b'\x10000000': the escape \x10 is one byte, the six characters '0' follow.
ResetPayload == <<16, 48, 48, 48, 48, 48, 48>>

StandbyPayload == <<0>>

(***************************************************************************)
(* Bounds of the model                                                     *)
(***************************************************************************)
MaxRng == 3            \* write_config is tried with rng in 0..MaxRng
MaxDeclDeg == 359      \* declination degrees 0..MaxDeclDeg (heading specification)
MaxDeclMin == 59       \* declination minutes 0..MaxDeclMin (heading specification)

(***************************************************************************)
(* Arithmetic                                                              *)
(***************************************************************************)
Abs(a) == IF a < 0 THEN -a ELSE a

RECURSIVE Gcd(_, _)
Gcd(a, b) == IF b = 0 THEN a ELSE Gcd(b, a % b)

RECURSIVE BitOr(_, _)
BitOr(a, b) ==
    IF a = 0 THEN b
    ELSE IF b = 0 THEN a
    ELSE (IF a % 2 = 1 \/ b % 2 = 1 THEN 1 ELSE 0) + 2 * BitOr(a \div 2, b \div 2)

Shl(a, n) == a * (2 ^ n)

\* Python's a / b for integers a and b > 0, kept exact.
TrueDiv(a, b) ==
    LET g == Gcd(Abs(a), b)
    IN  [num |-> a \div g, den |-> b \div g]

\* q + k for a fraction q and an integer k.
FracAddInt(q, k) == TrueDiv(q.num + k * q.den, q.den)

(***************************************************************************)
(* Frames: the state a method body runs on                                 *)
(***************************************************************************)
Ev(kind, reg, payload, ms, ok) ==
    [kind |-> kind, reg |-> reg, payload |-> payload, ms |-> ms, ok |-> ok]

None == <<>>

Frame ==
    [scale |-> scale, toffset |-> toffset, declination |-> declination,
     data |-> data, regs |-> regs, log |-> <<>>, exc |-> "none", ret |-> None]

Raise(fr, e) == [fr EXCEPT !.exc = e]

\* i2c.writeto_mem(self.address, memaddr, buf): ok is the transport's answer.
WriteToMem_swallow(fr, memaddr, buf, ok) ==
    IF fr.exc # "none" THEN fr
    ELSE IF ok
         THEN [fr EXCEPT !.regs[memaddr] = buf,
                         !.log = Append(@, Ev("write", memaddr, buf, 0, TRUE))]
         ELSE [fr EXCEPT !.log = Append(@, Ev("write", memaddr, buf, 0, FALSE))]

WriteToMem(fr, memaddr, buf, ok) ==
    IF fr.exc # "none" THEN fr
    ELSE IF ok
         THEN [fr EXCEPT !.regs[memaddr] = buf,
                         !.log = Append(@, Ev("write", memaddr, buf, 0, TRUE))]
         ELSE [fr EXCEPT !.log = Append(@, Ev("write", memaddr, buf, 0, FALSE)),
                         !.exc = "OSError"]

\* time.sleep(ms / 1000)
Sleep(fr, ms) ==
    IF fr.exc # "none" THEN fr
    ELSE [fr EXCEPT !.log = Append(@, Ev("sleep", 0, <<>>, ms, TRUE))]

\* bytearray([b]): one byte, ValueError unless 0 <= b <= 255
ByteOk(b) == b \in 0..255

(***************************************************************************)
(* reset, stanbdy                                                          *)
(***************************************************************************)
reset(fr, ok) == WriteToMem(fr, REG_CR2, ResetPayload, ok)

stanbdy(fr, ok) == WriteToMem(fr, REG_CR1, StandbyPayload, ok)

(***************************************************************************)
(* write_config                                                            *)
(***************************************************************************)
Cr1Byte_rngShift3(p) ==
    BitOr(BitOr(BitOr(Shl(p.osr, 6), Shl(p.rng, 3)), Shl(p.odr, 2)), p.mode)

Cr1Byte(p) ==
    BitOr(BitOr(BitOr(Shl(p.osr, 6), Shl(p.rng, 4)), Shl(p.odr, 2)), p.mode)

Cr2Byte(p) == BitOr(Shl(p.rol_pnt, 6), p.int_en)

\* an unsupported range falls back to the 2G scale instead of raising
SetScale_fallback(fr, p) ==
    [fr EXCEPT !.scale = IF p.rng \in DOMAIN RANGESCALE
                         THEN RANGESCALE[p.rng] ELSE RANGESCALE[RNG_2G],
               !.log = Append(@, Ev("scale", 0, <<>>, 0, TRUE))]

\* if rng in self.RANGESCALE.keys(): self.scale = ... else: raise Exception(...)
SetScale(fr, p) ==
    IF p.rng \in DOMAIN RANGESCALE
    THEN [fr EXCEPT !.scale = RANGESCALE[p.rng],
                    !.log = Append(@, Ev("scale", 0, <<>>, 0, TRUE))]
    ELSE Raise(fr, "Exception")

WriteByte(fr, memaddr, b, ok) ==
    IF fr.exc # "none" THEN fr
    ELSE IF ByteOk(b) THEN WriteToMem(fr, memaddr, <<b>>, ok)
    ELSE Raise(fr, "ValueError")

\* bus[i] is the transport's answer to the i-th write the call attempts.
write_config_scaleLate(fr, p, bus) ==
    LET f2 == reset(fr, bus[1])
        f3 == Sleep(f2, SettleMs)
        f4 == WriteByte(f3, REG_CR1, Cr1Byte(p), bus[2])
        f5 == WriteByte(f4, REG_CR2, Cr2Byte(p), bus[3])
        f6 == Sleep(f5, SettleMs)
    IN  IF f6.exc # "none" THEN f6 ELSE SetScale(f6, p)

write_config(fr, p, bus) ==
    LET f1 == SetScale(fr, p)
        f2 == reset(f1, bus[1])
        f3 == Sleep(f2, SettleMs)
        f4 == WriteByte(f3, REG_CR1, Cr1Byte(p), bus[2])
        f5 == WriteByte(f4, REG_CR2, Cr2Byte(p), bus[3])
    IN  Sleep(f5, SettleMs)

Params(mode, odr, rng, osr, rol_pnt, int_en) ==
    [mode |-> mode, odr |-> odr, rng |-> rng, osr |-> osr,
     rol_pnt |-> rol_pnt, int_en |-> int_en]

\* write_config's defaults: mode=MODE_CONT, odr=ODR_10HZ, rng=RNG_2G, osr=OSR_512,
\* rol_pnt=1, int_en=0
DefaultParams == Params(MODE_CONT, ODR_10HZ, RNG_2G, OSR_512, 1, 0)

\* the constructor's call: odr=ODR_100HZ, rng=RNG_2G, osr=OSR_512, mode=MODE_CONT
InitParams == [DefaultParams EXCEPT !.odr = ODR_100HZ]

Modes == {MODE_STBY, MODE_CONT}
Odrs == {ODR_10HZ, ODR_50HZ, ODR_100HZ, ODR_200HZ}
Osrs == {OSR_512, OSR_256, OSR_128, OSR_64}
RngInputs == 0..MaxRng

AllParams ==
    {Params(m, o, r, s, rp, ie) :
        m \in Modes, o \in Odrs, r \in RngInputs, s \in Osrs,
        rp \in {0, 1}, ie \in {0, 1}}

FewParams ==
    {[DefaultParams EXCEPT !.rng = r, !.mode = m] : r \in RngInputs, m \in Modes}

BusAnswers == [1..3 -> BOOLEAN]

(***************************************************************************)
(* read                                                                    *)
(***************************************************************************)
\* i2c.readfrom_mem_into(self.address, memaddr, self.data): the transport
\* answers x = [ok, n, bytes]: it fails, or it stores the first n bytes of
\* bytes into the buffer and returns normally.  The call's return value is
\* not looked at.
ReadFromMemInto(fr, memaddr, x) ==
    IF fr.exc # "none" THEN fr
    ELSE IF x.ok
         THEN [fr EXCEPT !.data = [i \in 1..BufLen |->
                                      IF i <= x.n THEN x.bytes[i] ELSE fr.data[i]],
                         !.log = Append(@, Ev("read", memaddr,
                                              SubSeq(x.bytes, 1, x.n), 0, TRUE))]
         ELSE [fr EXCEPT !.log = Append(@, Ev("read", memaddr, <<>>, 0, FALSE)),
                         !.exc = "OSError"]

\* struct formats 'h' and 'b' in little-endian standard size
S16(lo, hi) ==
    LET u == lo + 256 * hi
    IN  IF u >= 32768 THEN u - 65536 ELSE u

S8(b) == IF b >= 128 THEN b - 256 ELSE b

\* the temperature word read high byte first
Unpack_bigEndianTemp(d) ==
    <<S16(d[1], d[2]), S16(d[3], d[4]), S16(d[5], d[6]), S8(d[7]), S16(d[9], d[8])>>

\* unpack('<hhhbh', self.data)
Unpack(d) ==
    <<S16(d[1], d[2]), S16(d[3], d[4]), S16(d[5], d[6]), S8(d[7]), S16(d[8], d[9])>>

read(fr, x) ==
    LET f1 == ReadFromMemInto(fr, DataReg, x)
        f2 == Sleep(f1, SettleMs)
        u  == Unpack(f2.data)
    IN  IF f2.exc # "none" THEN f2
        ELSE [f2 EXCEPT !.ret =
                 <<TrueDiv(u[1], f2.scale), TrueDiv(u[2], f2.scale),
                   TrueDiv(u[3], f2.scale), u[4],
                   FracAddInt(TrueDiv(u[5], 100), f2.toffset)>>]

(***************************************************************************)
(* heading                                                                 *)
(***************************************************************************)
PI == 180 * 60

Axis == {-1, 0, 1}

\* math.atan2(y, x) in arc-minutes, for x, y in Axis
Atan2(y, x) ==
    CASE y = 0 /\ x >= 0 -> 0
      [] y > 0 /\ x > 0  -> PI \div 4
      [] y > 0 /\ x = 0  -> PI \div 2
      [] y > 0 /\ x < 0  -> 3 * (PI \div 4)
      [] y = 0 /\ x < 0  -> PI
      [] y < 0 /\ x < 0  -> -(3 * (PI \div 4))
      [] y < 0 /\ x = 0  -> -(PI \div 2)
      [] y < 0 /\ x > 0  -> -(PI \div 4)

\* (declination[0] + declination[1] / 60) * math.pi / 180
DeclinationRad(d) == d[1] * 60 + d[2]

Wrap(h) ==
    IF h < 0 THEN h + 2 * PI
    ELSE IF h > 2 * PI THEN h - 2 * PI
    ELSE h

heading(fr, x, y) ==
    LET heading_rad == Wrap(Atan2(y, x) + fr.declination)
        degrees     == heading_rad \div 60
        minutes     == heading_rad - 60 * degrees
    IN  [fr EXCEPT !.ret = <<degrees, minutes>>]

(***************************************************************************)
(* Actions                                                                 *)
(***************************************************************************)
NoRegs == [r \in {REG_CR1, REG_CR2} |-> <<>>]

Init ==
    /\ phase = "new"
    /\ scale = 0
    /\ toffset = 0
    /\ declination = 0
    /\ data = <<>>
    /\ regs = NoRegs
    /\ log = <<>>
    /\ result = [exc |-> "none", ret |-> None]
    /\ call = [op |-> "none", args |-> <<>>]
    /\ lastRng = -1

Commit(fr, op, args) ==
    /\ scale' = fr.scale
    /\ toffset' = fr.toffset
    /\ declination' = fr.declination
    /\ data' = fr.data
    /\ regs' = fr.regs
    /\ log' = fr.log
    /\ result' = [exc |-> fr.exc, ret |-> fr.ret]
    /\ call' = [op |-> op, args |-> args]

\* __init__(i2c, address, declination)
Construct(decls, answers) ==
    /\ phase = "new"
    /\ \E d \in decls, bus \in answers :
          LET f0 == [Frame EXCEPT !.declination = DeclinationRad(d),
                                  !.scale = InitScale, !.toffset = 0]
              f1 == write_config(f0, InitParams, bus)
              f2 == IF f1.exc # "none" THEN f1
                    ELSE [f1 EXCEPT !.data = [i \in 1..BufLen |-> 0]]
          IN  /\ Commit(f2, "__init__", d)
              /\ phase' = IF f2.exc = "none" THEN "ready" ELSE "failed"
              /\ lastRng' = InitParams.rng

WriteConfig(ps, answers) ==
    /\ phase = "ready"
    /\ \E p \in ps, bus \in answers :
          /\ Commit(write_config(Frame, p, bus), "write_config", p)
          /\ lastRng' = IF p.rng \in {RNG_2G, RNG_8G} THEN p.rng ELSE lastRng
    /\ UNCHANGED phase

Reset ==
    /\ phase = "ready"
    /\ \E ok \in BOOLEAN : Commit(reset(Frame, ok), "reset", <<>>)
    /\ UNCHANGED <<phase, lastRng>>

Standby ==
    /\ phase = "ready"
    /\ \E ok \in BOOLEAN : Commit(stanbdy(Frame, ok), "stanbdy", <<>>)
    /\ UNCHANGED <<phase, lastRng>>

Read(xfers) ==
    /\ phase = "ready"
    /\ \E x \in xfers : Commit(read(Frame, x), "read", <<>>)
    /\ UNCHANGED <<phase, lastRng>>

Heading ==
    /\ phase = "ready"
    /\ \E x \in Axis, y \in Axis : Commit(heading(Frame, x, y), "heading", <<x, y>>)
    /\ UNCHANGED <<phase, lastRng>>

(***************************************************************************)
(* Inputs                                                                  *)
(***************************************************************************)
DefaultDeclination == <<7, 42>>

AllOk == {[i \in 1..3 |-> TRUE]}

ValidParams == {p \in AllParams : p.rng \in {RNG_2G, RNG_8G}}

RangeParams == {[DefaultParams EXCEPT !.rng = r] : r \in RngInputs}

ConfigParams ==
    {[DefaultParams EXCEPT !.rng = r, !.mode = m, !.osr = o] :
        r \in RngInputs, m \in Modes, o \in Osrs}

\* the buffer for x = 1000, y = -500, z = 0, status = 1, temperature = 2500
SampleA == <<232, 3, 12, 254, 0, 0, 1, 196, 9>>
SampleB == <<255, 127, 0, 128, 255, 255, 128, 57, 245>>

Xfer(ok, n, bytes) == [ok |-> ok, n |-> n, bytes |-> bytes]

\* transfers that fail or deliver all 9 bytes
MainXfers == {Xfer(ok, BufLen, b) : ok \in BOOLEAN, b \in {SampleA, SampleB}}

\* transfers that deliver all 9 bytes or fewer
ShortXfers == {Xfer(TRUE, n, b) : n \in 0..BufLen, b \in {SampleA, SampleB}}

Words == {<<0, 0>>, <<1, 0>>, <<0, 1>>, <<232, 3>>, <<12, 254>>, <<196, 9>>,
          <<255, 127>>, <<0, 128>>, <<128, 0>>, <<255, 255>>, <<254, 255>>,
          <<255, 0>>, <<0, 255>>, <<52, 18>>}
StatusBytes == {0, 1, 2, 7, 127, 128, 129, 255}

\* a sample with the 16-bit field at bytes i, i+1 replaced
WithWord(b, i, w) == [b EXCEPT ![i] = w[1], ![i + 1] = w[2]]

\* complete transfers: each field of each sample taken through every word
FullXfers ==
    {Xfer(TRUE, BufLen, WithWord(b, i, w)) :
        b \in {SampleA, SampleB}, i \in {1, 3, 5, 8}, w \in Words}
    \cup {Xfer(TRUE, BufLen, [b EXCEPT ![7] = st]) :
             b \in {SampleA, SampleB}, st \in StatusBytes}

AllDeclinations == (0..MaxDeclDeg) \X (0..MaxDeclMin)

(***************************************************************************)
(* Specifications                                                          *)
(***************************************************************************)
\* every operation, on few inputs
Next ==
    \/ Construct({DefaultDeclination}, BusAnswers)
    \/ WriteConfig(FewParams, BusAnswers)
    \/ Reset
    \/ Standby
    \/ Read(MainXfers)
    \/ Heading

Spec == Init /\ [][Next]_vars

\* construction and write_config alone, with transport failures
NextConfig ==
    \/ Construct({DefaultDeclination}, BusAnswers)
    \/ WriteConfig(ConfigParams, BusAnswers)

SpecConfig == Init /\ [][NextConfig]_vars

\* write_config on every parameter tuple with a supported range
NextEncode ==
    \/ Construct({DefaultDeclination}, AllOk)
    \/ WriteConfig(ValidParams, AllOk)

SpecEncode == Init /\ [][NextEncode]_vars

\* read on a transport that may deliver fewer than 9 bytes
NextShort ==
    \/ Construct({DefaultDeclination}, AllOk)
    \/ Read(ShortXfers)

SpecShort == Init /\ [][NextShort]_vars

\* read on many complete buffers, at either scale
NextDecode ==
    \/ Construct({DefaultDeclination}, AllOk)
    \/ WriteConfig(RangeParams, AllOk)
    \/ Read(FullXfers)

SpecDecode == Init /\ [][NextDecode]_vars

\* heading at every declination
NextHeading ==
    \/ Construct(AllDeclinations, AllOk)
    \/ Heading

SpecHeading == Init /\ [][NextHeading]_vars

(***************************************************************************)
(* Properties                                                              *)
(***************************************************************************)
Supported == {RNG_2G, RNG_8G}

ScaleFor(r) == IF r = RNG_2G THEN 12000 ELSE 3000

IsConfigCall == call.op = "write_config" \/ (call.op = "__init__" /\ phase # "new")

\* the parameters of the last write_config, the constructor's included
ConfigArgs == IF call.op = "__init__" THEN InitParams ELSE call.args

Succeeded == result.exc = "none"

\* a little-endian two's-complement 16-bit word, sign taken from the top bit
Word16(lo, hi) == lo + 256 * hi - (IF hi >= 128 THEN 65536 ELSE 0)

\* fraction q equals a / b
EqualsRatio(q, a, b) == q.den > 0 /\ q.num * b = a * q.den

\* C1: write_config with a range outside {RNG_2G, RNG_8G} raises the
\* unsupported-range exception with no bus write and no delay issued, and
\* leaves scale (and the device registers) as they were before the call.
C1_UnsupportedRangeAborts ==
    [][(call'.op = "write_config" /\ call'.args.rng \notin Supported)
          => /\ result'.exc = "Exception"
             /\ log' = <<>>
             /\ scale' = scale
             /\ regs' = regs]_vars

C1_Witness ==
    /\ call.op = "write_config"
    /\ call.args.rng \notin Supported
    /\ result.exc = "Exception"
    /\ log = <<>>
    /\ scale = 3000

\* C2: on a constructed driver scale is the value for the range of the last
\* write_config that passed validation (12000 right after construction), it
\* is untouched by read, reset, stanbdy and heading, and a returned sample's
\* axes are the raw counts of the buffer divided by that scale.
C2_ScaleFollowsLastValidRange ==
    phase = "ready" =>
        /\ lastRng \in Supported
        /\ scale = ScaleFor(lastRng)
        /\ call.op = "__init__" => scale = 12000
        /\ (call.op = "read" /\ Succeeded) =>
              \A k \in 1..3 :
                  EqualsRatio(result.ret[k],
                              Word16(data[2 * k - 1], data[2 * k]),
                              ScaleFor(lastRng))

C2_Witness ==
    /\ phase = "ready"
    /\ call.op = "read"
    /\ Succeeded
    /\ lastRng = RNG_8G
    /\ data = SampleA
    /\ result.ret[1] = [num |-> 1, den |-> 3]

\* C3: a write_config that returns normally has issued, in this order: the
\* scale update, the reset write to register 0xA, a delay of at least 5 ms,
\* one byte to register 0x9, one byte to register 0xA, a delay of at least
\* 5 ms; and nothing else.
C3_ConfigOrder ==
    (IsConfigCall /\ Succeeded) =>
        /\ Len(log) = 6
        /\ log[1].kind = "scale"
        /\ scale = ScaleFor(ConfigArgs.rng)
        /\ log[2].kind = "write" /\ log[2].reg = 10 /\ log[2].payload = ResetPayload
        /\ log[3].kind = "sleep" /\ log[3].ms >= 5
        /\ log[4].kind = "write" /\ log[4].reg = 9 /\ Len(log[4].payload) = 1
        /\ log[5].kind = "write" /\ log[5].reg = 10 /\ Len(log[5].payload) = 1
        /\ log[6].kind = "sleep" /\ log[6].ms >= 5

C3_Witness ==
    /\ call.op = "write_config"
    /\ Succeeded
    /\ Len(log) = 6
    /\ log[1].kind = "scale"
    /\ log[6].kind = "sleep"
    /\ scale = 3000

\* C4: for parameters in their documented ranges write_config sends to
\* register 0x9 the one byte osr*64 + rng*16 + odr*4 + mode and to register
\* 0xA the one byte rol_pnt*64 + int_en; both are in 0..255, every field can
\* be read back from its own bits, and the constructor sends 0x09.
C4_ControlBytes ==
    (IsConfigCall /\ Succeeded) =>
        LET p  == ConfigArgs
            b1 == log[4].payload
            b2 == log[5].payload
        IN  /\ log[4].reg = 9 /\ log[5].reg = 10
            /\ b1 = <<p.osr * 64 + p.rng * 16 + p.odr * 4 + p.mode>>
            /\ b2 = <<p.rol_pnt * 64 + p.int_en>>
            /\ regs[9] = b1 /\ regs[10] = b2
            /\ b1[1] \in 0..255 /\ b2[1] \in 0..255
            /\ b1[1] % 4 = p.mode
            /\ (b1[1] \div 4) % 4 = p.odr
            /\ (b1[1] \div 16) % 4 = p.rng
            /\ b1[1] \div 64 = p.osr
            /\ b2[1] % 64 = p.int_en
            /\ b2[1] \div 64 = p.rol_pnt
            /\ call.op = "__init__" => b1 = <<9>>

C4_Witness ==
    /\ call.op = "write_config"
    /\ Succeeded
    /\ call.args = Params(MODE_CONT, ODR_200HZ, RNG_8G, OSR_64, 1, 1)
    /\ regs[9] = <<221>>
    /\ regs[10] = <<65>>

\* C5 (as claimed): a read whose transfer delivered fewer than 9 bytes ends
\* in ShortRead and returns no sample.
C5_ShortReadRejected ==
    (call.op = "read" /\ Len(log) >= 1 /\ log[1].kind = "read" /\ log[1].ok
        /\ Len(log[1].payload) < 9)
        => (result.exc = "ShortRead" /\ result.ret = None)

\* C6: a failed bus transaction is the last thing its call does and the call
\* ends with the transport's error and no return value; write_config makes
\* at most its three writes (0xA, 0x9, 0xA), each once, and read makes
\* exactly one transfer.
C6_FailureSurfacesNoRetry ==
    LET busIdx   == {i \in 1..Len(log) : log[i].kind \in {"write", "read"}}
        writeSeq == SelectSeq(log, LAMBDA e : e.kind = "write")
    IN  /\ \A i \in busIdx :
              ~log[i].ok => /\ i = Len(log)
                            /\ result.exc = "OSError"
                            /\ result.ret = None
        /\ (\A i \in busIdx : log[i].ok) => result.exc # "OSError"
        /\ IsConfigCall =>
              /\ Len(writeSeq) <= 3
              /\ \A i \in 1..Len(writeSeq) : writeSeq[i].reg = <<10, 9, 10>>[i]
        /\ call.op = "read" =>
              Cardinality({i \in busIdx : log[i].kind = "read"}) = 1

C6_Witness ==
    /\ call.op = "write_config"
    /\ result.exc = "OSError"
    /\ Len(log) = 4
    /\ log[4].kind = "write" /\ log[4].reg = 9 /\ ~log[4].ok

\* C7 (as claimed): reset() issues exactly one write, to register 0xA, of
\* the single byte 0x80.
C7_ResetWrites0x80 ==
    call.op = "reset" =>
        /\ Len(log) = 1
        /\ log[1].kind = "write"
        /\ log[1].reg = 10
        /\ log[1].payload = <<128>>

\* C8: a read of a complete 9-byte buffer b returns x, y, z = the signed
\* little-endian words at bytes (0,1), (2,3), (4,5) divided by scale, status
\* = byte 6 alone (as a signed byte), temperature = the signed word at bytes
\* (7,8) divided by 100 plus toffset; the buffer of (1000, -500, 0, 1, 2500)
\* at scale 3000 gives (1/3, -1/6, 0, 1, 25).
C8_Decode ==
    (call.op = "read" /\ Succeeded /\ Len(log[1].payload) = 9) =>
        LET b == log[1].payload
            r == result.ret
        IN  /\ \A k \in 1..3 :
                  EqualsRatio(r[k], Word16(b[2 * k - 1], b[2 * k]), scale)
            /\ r[4] \in -128..127 /\ (r[4] - b[7]) % 256 = 0
            /\ EqualsRatio(r[5], Word16(b[8], b[9]) + 100 * toffset, 100)
            /\ (b = SampleA /\ scale = 3000) =>
                  r = <<[num |-> 1, den |-> 3], [num |-> -1, den |-> 6],
                        [num |-> 0, den |-> 1], 1, [num |-> 25, den |-> 1]>>

C8_Witness ==
    /\ call.op = "read"
    /\ Succeeded
    /\ log[1].payload = SampleA
    /\ scale = 3000
    /\ result.ret[2] = [num |-> -1, den |-> 6]
    /\ result.ret[5] = [num |-> 25, den |-> 1]

\* C9 (as claimed): heading returns degrees in 0..359 (an angle in [0, 2pi))
\* for every input pair and every declination in [0, 360) degrees.
C9_HeadingBelow360 ==
    (call.op = "heading" /\ declination < 2 * PI) =>
        /\ result.ret[1] \in 0..359
        /\ result.ret[2] \in 0..59

\* C10 (as claimed): between operations, scale is the scale of the range
\* bits of the byte last written to register 0x9.
C10_ScaleMatchesWrittenRange ==
    phase = "ready" =>
        /\ Len(regs[9]) = 1
        /\ scale = ScaleFor((regs[9][1] \div 16) % 4)

====
